---- MODULE Spec2Model ----
(***************************************************************************)
(* FormService (src/src/form/FormService.tsx): the form-state coordinator. *)
(* Record data, the changes overlay, the error and warning sets, the       *)
(* throttled validation and the submit reconciliation, as a state machine. *)
(*                                                                         *)
(* JavaScript runs one task at a time: an action is one synchronous run of *)
(* a handler, from its call (or from the await it resumes after) to its    *)
(* next await or its return.                                               *)
(***************************************************************************)
EXTENDS Integers, Sequences, FiniteSets, TLC

\* ---------------------------------------------------------------- bounds
NumValues == 2          \* field values are 1..NumValues
MaxHidden == 2          \* longest hidden-validation-fields list explored
MaxCalls == 3           \* most validator / model.submit invocations counted
MaxListeners == 2       \* most change listeners registered at a time

Fields == {"a", "b"}
Values == 1..NumValues
\* A record ({[index: string]: any}): a function from some of the fields.
Maps == UNION {[D -> Values] : D \in SUBSET Fields}
EmptyMap == <<>>
\* null (FormService.tsx:48-49): a value no record equals.
Null == [null |-> 0]
\* A ValidationErrors object, as the set of the fields it has messages for.
ErrorSets == SUBSET Fields
NoErrors == {}

VARIABLES
  isNotInitialized,            \* _isNotInitialized
  data,                        \* _data: a record, or Null
  changes,                     \* _changes: a record, or Null
  errors,                      \* _errors
  warnings,                    \* _warnings
  hiddenValidationFields,      \* _hiddenValidationFields
  isSubmitting,                \* _isSubmitting
  partialErrorChecking,        \* _partialErrorChecking
  partialErrorCheckingDefault, \* _partialErrorCheckingDefault
  submitAll,                   \* submitAll
  validating,                  \* validating
  subscribed,                  \* model.on('update', _onModelChange) is in effect
  listeners,                   \* _eventEmitter.listenerCount('update')
  initPc,                      \* init(): "new", "fetching" (line 110), "ran" (past line 116)
  presetData,                  \* init() was given settings.data
  worked,                      \* throttle: a run of _validateForm is outstanding
  nextArguments,               \* throttle: calls waiting in the one pending slot
  initWait,                    \* where init()'s validateForm call is: "none", "run", "next"
  passAnswer,                  \* how the throttled _validateForm() call answered last
                               \*   ended: "none", "resolved", "ThrottleError", "error"
  callAnswer,                  \* how the public call that made it ended
  passPc,                      \* the outstanding _validateForm: "idle", "awaiting", "settled"
  passes,                      \* _validateForm invocations not yet handed back
  passCount,                   \* its countOfHiddenValidationFieldsToRemove
  errV,                        \* _runValidator(model, _getChanges, '_errors')
  warnV,                       \* _runValidator(_warningsValidator, _getData, '_warnings')
  request,                     \* the model.submit request in flight, or Null
  submitCount,                 \* submit()'s countOfHiddenValidationFieldsToRemove
  submitResult,                \* how the last submit() that sent a request ended
  aliases,                     \* who holds the overlay object itself, not a copy:
                               \*   "request" (submit's changes), "errV" (its data)
  errCalls,                    \* history: model.isValidRecord invocations
  warnCalls,                   \* history: _warningsValidator.isValidRecord invocations
  submitCalls,                 \* history: model.submit invocations
  vfBurst,                     \* history: validateForm() calls made back-to-back
  emitted,                     \* history: snapshots the step just taken broadcast
  lastBroadcast                \* history: the snapshot broadcast most recently

formVars == <<isNotInitialized, data, changes, errors, warnings,
              hiddenValidationFields, isSubmitting, partialErrorChecking,
              partialErrorCheckingDefault, submitAll, validating>>
initVars == <<subscribed, listeners, initPc, presetData>>
throttleVars == <<worked, nextArguments, initWait, passAnswer, callAnswer>>
passVars == <<passPc, passes, passCount, errV, warnV>>
submitVars == <<request, submitCount, submitResult>>
aliasVars == <<aliases>>
countVars == <<errCalls, warnCalls, submitCalls>>
histVars == <<vfBurst, emitted, lastBroadcast>>
vars == <<formVars, initVars, throttleVars, passVars, submitVars, aliasVars,
          countVars, histVars>>

\* ------------------------------------------------------- pure helpers
\* Object.assign({}, m1, m2) and {...m1, ...m2}: m2's entries win.
Merge(m1, m2) ==
  [f \in (DOMAIN m1) \cup (DOMAIN m2) |-> IF f \in DOMAIN m2 THEN m2[f] ELSE m1[f]]

\* delete m[field]
Without(m, field) == [f \in (DOMAIN m) \ {field} |-> m[f]]

\* getRecordChanges answering with the update alone, the overlay forgotten.
getRecordChangesReplaced(d, c, update) == update

\* utils.getRecordChanges(model, data, changes, newChanges): the overlay and the
\* update combined, a field kept also when its value equals the record's.
getRecordChanges(d, c, update) == Merge(c, update)

SeqToSet(s) == {s[i] : i \in 1..Len(s)}

\* Array.prototype.splice(0, n): the list without its first n entries.
Splice(s, n) == IF n >= Len(s) THEN <<>> ELSE SubSeq(s, n + 1, Len(s))

\* --------------------------------------------------- derived state
\* _getData() of record d and overlay c.
DataOfSwapped(d, c) == Merge(c, d)
DataOf(d, c) == Merge(d, c)

\* _getChanges()
ChangesOf(d, c, sAll) == IF sAll THEN DataOf(d, c) ELSE c

\* _isDependentField(field): isEqual(undefined, v) is false for a value v.
IsDependentFieldOf(d, c, field) ==
  /\ field \in DOMAIN c
  /\ field \in DOMAIN d
  /\ c[field] = d[field]

\* _getChangesFields without the _isDependentField test.
ChangesFieldsOfOverlay(d, c) == c

\* _getChangesFields()
ChangesFieldsOf(d, c) ==
  [f \in {g \in DOMAIN c : ~IsDependentFieldOf(d, c, g)} |-> c[f]]

\* _getDisplayedErrors without the test on _hiddenValidationFields.
DisplayedErrorsOfListed(validationErrors, d, c, hidden, pec) ==
  {f \in validationErrors :
     ~(pec /\ (f \notin DOMAIN c \/ (f \in DOMAIN d /\ c[f] = d[f])))}

\* _getDisplayedErrors(validationErrors)
DisplayedErrorsOf(validationErrors, d, c, hidden, pec) ==
  {f \in validationErrors :
     LET isFieldPristine ==
           \/ f \notin DOMAIN c
           \/ (f \in DOMAIN d /\ c[f] = d[f])
     IN ~(f \in SeqToSet(hidden) \/ (pec /\ isFieldPristine))}

\* getAll() of the given state.
SnapshotOf(d, c, e, w, hidden, pec, submitting) ==
  IF d = Null
  THEN [isLoaded |-> FALSE, data |-> EmptyMap, originalData |-> EmptyMap,
        changes |-> EmptyMap, errors |-> NoErrors, warnings |-> NoErrors,
        isSubmitting |-> FALSE]
  ELSE [isLoaded |-> TRUE, data |-> DataOf(d, c), originalData |-> d,
        changes |-> ChangesFieldsOf(d, c),
        errors |-> DisplayedErrorsOf(e, d, c, hidden, pec),
        warnings |-> DisplayedErrorsOf(w, d, c, hidden, pec),
        isSubmitting |-> submitting]

\* _isLoaded() answering true whatever _data is.
IsLoadedAlways == TRUE

IsLoaded == data # Null
GetData == DataOf(data, changes)
GetChanges == ChangesOf(data, changes, submitAll)
GetAll == SnapshotOf(data, changes, errors, warnings, hiddenValidationFields,
                     partialErrorChecking, isSubmitting)

\* _getFields(data, changes, errors, warnings) (lines 390-413), read at each
\* field name: getAll() passes it the snapshot's own data, changes, errors and
\* warnings (line 151). undef stands for the undefined of a missing value.
FieldsOf(snapData, snapChanges, snapErrors, snapWarnings) ==
  [f \in Fields |->
     [value |-> IF f \in DOMAIN snapData THEN snapData[f] ELSE "undef",
      isChanged |-> f \in DOMAIN snapChanges,
      errors |-> f \in snapErrors,
      warnings |-> f \in snapWarnings]]

\* getAll().fields
GetFields == FieldsOf(GetAll.data, GetAll.changes, GetAll.errors, GetAll.warnings)

\* _setState(): the snapshot snap is handed to the listeners.
Broadcast(snap) ==
  /\ emitted' = <<snap>>
  /\ lastBroadcast' = snap

NoBroadcast ==
  /\ emitted' = <<>>
  /\ UNCHANGED lastBroadcast

\* vfBurst counts the validateForm() calls made one after the other, with no
\* step between them, as the first calls after init() resolved: 0 before the
\* first, -1 once anything else has been called or has happened between them.
BurstResumed == vfBurst' = IF vfBurst \in {1, 2} THEN -1 ELSE vfBurst

\* A _runValidator that is not awaiting its validator.
Settled(st) == [st |-> st, data |-> EmptyMap]

\* init() has resolved: its code is past line 116 and its validateForm() call,
\* if it made one, has been answered.
InitResolved == initPc = "ran" /\ initWait = "none"

\* ------------------------------------------------ throttled validation
\* validateForm() without its catch: whatever _validateForm() ends with is what
\* the caller gets.
ValidateFormRethrown(e) == e

\* validateForm() (lines 344-352): a ThrottleError of the throttled call is
\* caught and the caller's promise resolves; any other failure is thrown on.
\* set(data, true) awaits validateForm() (lines 237-245) and validateField
\* awaits set (lines 214-218), so they end the same way.
ValidateFormCaught(e) == IF e = "ThrottleError" THEN "resolved" ELSE e

\* The throttled call ends with e and its caller is answered.
Answer(e) ==
  /\ passAnswer' = e
  /\ callAnswer' = ValidateFormCaught(e)

NoAnswer == UNCHANGED <<passAnswer, callAnswer>>

\* _validateForm() from its call to its first await (lines 354-372), on the
\* state the calling step leaves. The two _runValidator calls run to their
\* await (lines 494-503) in the order Promise.all lists them. With submitAll
\* unset, _getChanges returns the overlay object itself (line 486); al are the
\* holders of that object the calling step leaves.
PassStart(al) ==
  IF isNotInitialized
  THEN /\ passPc' = "settled"
       /\ aliases' = al
       /\ UNCHANGED <<passCount, validating, errors, warnings, errV, warnV,
                      errCalls, warnCalls>>
  ELSE LET dE == ChangesOf(data', changes', submitAll')
           dW == DataOf(data', changes')
       IN /\ errCalls < MaxCalls /\ warnCalls < MaxCalls
          \* explored only once the validator calls of the run before are over
          /\ errV.st # "awaiting" /\ warnV.st # "awaiting"
          /\ passCount' = Len(hiddenValidationFields')
          /\ validating' = TRUE
          /\ errors' = IF dE = EmptyMap THEN NoErrors ELSE errors
          /\ errV' = IF dE = EmptyMap THEN Settled("ok")
                     ELSE [st |-> "awaiting", data |-> dE]
          /\ aliases' = IF dE # EmptyMap /\ ~submitAll'
                        THEN al \cup {"errV"} ELSE al \ {"errV"}
          /\ errCalls' = IF dE = EmptyMap THEN errCalls ELSE errCalls + 1
          /\ warnings' = IF dW = EmptyMap THEN NoErrors ELSE warnings
          /\ warnV' = IF dW = EmptyMap THEN Settled("ok")
                      ELSE [st |-> "awaiting", data |-> dW]
          /\ warnCalls' = IF dW = EmptyMap THEN warnCalls ELSE warnCalls + 1
          /\ passPc' = "awaiting"

NoPass(al) ==
  /\ aliases' = al
  /\ UNCHANGED <<passPc, passCount, validating, errors, warnings, errV, warnV,
              errCalls, warnCalls>>

\* utils.throttle, as called: while a run is outstanding the call takes the one
\* pending slot, the call that held it being rejected with a ThrottleError;
\* otherwise the call starts a run.
Throttled(owner, al) ==
  IF worked
  THEN /\ nextArguments' = 1
       /\ initWait' = IF owner = "init" THEN "next"
                      ELSE IF initWait = "next" THEN "none" ELSE initWait
       /\ UNCHANGED <<worked, passes>>
       /\ IF nextArguments > 0 THEN Answer("ThrottleError") ELSE NoAnswer
       /\ NoPass(al)
  ELSE /\ worked' = TRUE
       /\ passes' = passes + 1
       /\ initWait' = IF owner = "init" THEN "run" ELSE initWait
       /\ UNCHANGED nextArguments
       /\ NoAnswer
       /\ PassStart(al)

\* _validateForm called as the plain method, every call starting a run.
Unthrottled(owner, al) ==
  /\ passes < 2
  /\ passes' = passes + 1
  /\ worked' = TRUE
  /\ initWait' = IF owner = "init" THEN "run" ELSE initWait
  /\ UNCHANGED nextArguments
  /\ NoAnswer
  /\ PassStart(al)

\* this._validateForm() inside validateForm() (line 346): the constructor has
\* replaced the method by its throttled form (line 69).
CallValidateForm(owner, al) == Throttled(owner, al)

NoValidateForm(al) ==
  /\ UNCHANGED <<worked, nextArguments, initWait, passes>>
  /\ NoAnswer
  /\ NoPass(al)

\* utils.throttle, when the run's promise settles: the run's caller is answered
\* and the call in the pending slot, if any, starts the next run.
ThrottleSettle ==
  /\ worked
  /\ passPc = "settled"
  /\ UNCHANGED <<isNotInitialized, data, changes, hiddenValidationFields,
                 isSubmitting, partialErrorChecking, partialErrorCheckingDefault,
                 submitAll>>
  /\ UNCHANGED <<initVars, submitVars, submitCalls>>
  /\ BurstResumed
  /\ Answer(IF errV.st = "failed" \/ warnV.st = "failed"
            THEN "error" ELSE "resolved")
  /\ IF nextArguments > 0
     THEN /\ nextArguments' = 0
          /\ initWait' = IF initWait = "next" THEN "run" ELSE "none"
          /\ UNCHANGED <<worked, passes>>
          /\ PassStart(aliases)
     ELSE /\ worked' = FALSE
          /\ passes' = passes - 1
          /\ initWait' = "none"
          /\ passPc' = "idle"
          /\ UNCHANGED <<nextArguments, passCount, validating, errors, warnings,
                         errV, warnV, errCalls, warnCalls, aliases>>
  /\ NoBroadcast

\* ---------------------------------------------------------- operations
\* constructor (lines 47-76)
Init ==
  /\ isNotInitialized = TRUE
  /\ data = Null
  /\ changes = Null
  /\ errors = NoErrors
  /\ warnings = NoErrors
  /\ hiddenValidationFields = <<>>
  /\ isSubmitting = FALSE
  /\ partialErrorChecking = FALSE
  /\ partialErrorCheckingDefault = FALSE
  /\ submitAll = FALSE
  /\ validating = FALSE
  /\ subscribed = FALSE
  /\ listeners = 0
  /\ initPc = "new"
  /\ presetData = FALSE
  /\ worked = FALSE
  /\ nextArguments = 0
  /\ initWait = "none"
  /\ passAnswer = "none"
  /\ callAnswer = "none"
  /\ passPc = "idle"
  /\ passes = 0
  /\ passCount = 0
  /\ errV = Settled("idle")
  /\ warnV = Settled("idle")
  /\ request = Null
  /\ submitCount = 0
  /\ submitResult = "none"
  /\ aliases = {}
  /\ errCalls = 0
  /\ warnCalls = 0
  /\ submitCalls = 0
  /\ vfBurst = 0
  /\ emitted = <<>>
  /\ lastBroadcast = Null

\* init(), lines 113-118: subscribe to the model, broadcast, and validate
\* unless settings.partialErrorChecking.
InitTail ==
  /\ subscribed' = TRUE
  /\ initPc' = "ran"
  /\ Broadcast(SnapshotOf(data', changes', errors, warnings,
                          hiddenValidationFields, partialErrorChecking',
                          isSubmitting))
  /\ IF ~partialErrorCheckingDefault'
     THEN CallValidateForm("init", aliases)
     ELSE NoValidateForm(aliases)

\* init(settings), lines 92-111, and on to line 118 when settings.data is given.
InitCall(d, c, pec, sAll) ==
  /\ initPc = "new"
  /\ changes' = c
  /\ data' = d
  /\ partialErrorChecking' = pec
  /\ partialErrorCheckingDefault' = pec
  /\ submitAll' = sAll
  /\ presetData' = (d # Null)
  /\ UNCHANGED <<isNotInitialized, hiddenValidationFields, isSubmitting, listeners>>
  /\ UNCHANGED <<submitVars, submitCalls, vfBurst>>
  /\ IF d = Null
     THEN /\ initPc' = "fetching"
          /\ UNCHANGED subscribed
          /\ NoValidateForm(aliases)
          /\ NoBroadcast
     ELSE InitTail

\* init() resumed when model.getData(fields) resolves with d (line 110).
InitFetched(d) ==
  /\ initPc = "fetching"
  /\ data' = d
  /\ UNCHANGED <<isNotInitialized, changes, hiddenValidationFields, isSubmitting,
                 partialErrorChecking, partialErrorCheckingDefault, submitAll>>
  /\ UNCHANGED <<presetData, listeners, submitVars, submitCalls, vfBurst>>
  /\ InitTail

\* set(data, validate) (lines 226-246)
Set(update, validate) ==
  /\ vfBurst' = -1
  /\ UNCHANGED <<isNotInitialized, data, hiddenValidationFields, isSubmitting,
                 partialErrorChecking, partialErrorCheckingDefault, submitAll>>
  /\ UNCHANGED <<initVars, submitVars, submitCalls>>
  /\ IF ~IsLoaded
     THEN /\ UNCHANGED changes
          /\ NoValidateForm(aliases)
          /\ NoBroadcast
     ELSE /\ changes' = getRecordChanges(data, changes, update)
          /\ Broadcast(SnapshotOf(data, changes', errors, warnings,
                                  hiddenValidationFields, partialErrorChecking,
                                  isSubmitting))
          \* the overlay is now a new object, which nobody holds yet
          /\ IF validate
             THEN CallValidateForm("set", {})
             ELSE NoValidateForm({})

\* validateForm() (lines 344-352), called from outside.
ValidateForm ==
  /\ vfBurst' = IF vfBurst \in 0..2 /\ InitResolved THEN vfBurst + 1 ELSE -1
  /\ UNCHANGED <<isNotInitialized, data, changes, hiddenValidationFields,
                 isSubmitting, partialErrorChecking, partialErrorCheckingDefault,
                 submitAll>>
  /\ UNCHANGED <<initVars, submitVars, submitCalls>>
  /\ CallValidateForm("user", aliases)
  /\ NoBroadcast

\* submit() from its call to its await (lines 260-277).
Submit ==
  /\ vfBurst' = -1
  /\ UNCHANGED <<isNotInitialized, data, changes, errors, warnings,
                 hiddenValidationFields, partialErrorCheckingDefault, submitAll,
                 validating>>
  /\ UNCHANGED <<initVars, throttleVars, passVars, errCalls, warnCalls>>
  /\ IF isNotInitialized \/ isSubmitting
     THEN /\ UNCHANGED <<isSubmitting, partialErrorChecking, request, submitCount,
                         submitResult, submitCalls, aliases>>
          /\ NoBroadcast
     ELSE /\ submitCalls < MaxCalls
          /\ request' = [sent |-> GetChanges]
          /\ aliases' = IF submitAll THEN aliases ELSE aliases \cup {"request"}
          /\ isSubmitting' = TRUE
          /\ partialErrorChecking' = FALSE
          /\ submitCount' = Len(hiddenValidationFields)
          /\ submitResult' = "pending"
          /\ submitCalls' = submitCalls + 1
          /\ Broadcast(SnapshotOf(data, changes, errors, warnings,
                                  hiddenValidationFields, FALSE, TRUE))

\* _onModelChange taking the notification for the whole record.
OnModelChangeReplacing(update) ==
  /\ subscribed
  /\ data' = update
  /\ vfBurst' = -1
  /\ UNCHANGED <<isNotInitialized, changes, errors, warnings,
                 hiddenValidationFields, isSubmitting, partialErrorChecking,
                 partialErrorCheckingDefault, submitAll, validating>>
  /\ UNCHANGED <<initVars, throttleVars, passVars, submitVars, aliasVars,
                 countVars>>
  /\ Broadcast(SnapshotOf(update, changes, errors, warnings,
                          hiddenValidationFields, partialErrorChecking,
                          isSubmitting))

\* _onModelChange(changes) (lines 470-473): the model's 'update' event.
OnModelChange(update) ==
  /\ subscribed
  /\ data' = Merge(data, update)
  /\ vfBurst' = -1
  /\ UNCHANGED <<isNotInitialized, changes, errors, warnings,
                 hiddenValidationFields, isSubmitting, partialErrorChecking,
                 partialErrorCheckingDefault, submitAll, validating>>
  /\ UNCHANGED <<initVars, throttleVars, passVars, submitVars, aliasVars,
                 countVars>>
  /\ Broadcast(SnapshotOf(data', changes, errors, warnings,
                          hiddenValidationFields, partialErrorChecking,
                          isSubmitting))

\* clearFieldChanges(field) (lines 312-321). delete works on the overlay object
\* itself, so whoever holds that object loses the field too.
ClearFieldChanges(field) ==
  /\ vfBurst' = -1
  /\ UNCHANGED <<isNotInitialized, data, hiddenValidationFields, isSubmitting,
                 partialErrorChecking, partialErrorCheckingDefault, submitAll,
                 validating>>
  /\ UNCHANGED <<initVars, throttleVars, passPc, passes, passCount, warnV,
                 submitCount, submitResult, aliasVars, countVars>>
  /\ IF isNotInitialized
     THEN /\ UNCHANGED <<changes, errors, warnings, errV, request>>
          /\ NoBroadcast
     ELSE /\ errors' = errors \ {field}
          /\ warnings' = warnings \ {field}
          /\ changes' = Without(changes, field)
          /\ request' = IF "request" \in aliases
                        THEN [request EXCEPT !.sent = Without(@, field)]
                        ELSE request
          /\ errV' = IF "errV" \in aliases
                     THEN [errV EXCEPT !.data = Without(@, field)]
                     ELSE errV
          /\ Broadcast(SnapshotOf(data, changes', errors', warnings',
                                  hiddenValidationFields, partialErrorChecking,
                                  isSubmitting))

\* clearChanges() (lines 323-333)
ClearChanges ==
  /\ vfBurst' = -1
  /\ UNCHANGED <<isNotInitialized, data, hiddenValidationFields, isSubmitting,
                 partialErrorCheckingDefault, submitAll, validating>>
  /\ UNCHANGED <<initVars, throttleVars, passVars, submitVars, countVars>>
  /\ IF isNotInitialized
     THEN /\ UNCHANGED <<changes, errors, warnings, partialErrorChecking, aliases>>
          /\ NoBroadcast
     ELSE /\ errors' = NoErrors
          /\ warnings' = NoErrors
          /\ changes' = EmptyMap
          /\ aliases' = {}
          /\ partialErrorChecking' = partialErrorCheckingDefault
          /\ Broadcast(SnapshotOf(data, EmptyMap, NoErrors, NoErrors,
                                  hiddenValidationFields,
                                  partialErrorCheckingDefault, isSubmitting))

\* clearValidation(fields) (lines 188-207): fields is one name or a list.
ClearValidation(fields) ==
  /\ vfBurst' = -1
  /\ UNCHANGED <<isNotInitialized, data, changes, errors, warnings, isSubmitting,
                 partialErrorChecking, partialErrorCheckingDefault, submitAll,
                 validating>>
  /\ UNCHANGED <<initVars, throttleVars, passVars, submitVars, aliasVars,
                 countVars>>
  /\ IF isNotInitialized
     THEN /\ UNCHANGED hiddenValidationFields
          /\ NoBroadcast
     ELSE /\ Len(hiddenValidationFields) + Len(fields) <= MaxHidden
          /\ hiddenValidationFields' = hiddenValidationFields \o fields
          /\ Broadcast(SnapshotOf(data, changes, errors, warnings,
                                  hiddenValidationFields', partialErrorChecking,
                                  isSubmitting))

\* setPartialErrorChecking(value) (lines 335-338)
SetPartialErrorChecking(value) ==
  /\ vfBurst' = -1
  /\ partialErrorChecking' = value
  /\ UNCHANGED <<isNotInitialized, data, changes, errors, warnings,
                 hiddenValidationFields, isSubmitting,
                 partialErrorCheckingDefault, submitAll, validating>>
  /\ UNCHANGED <<initVars, throttleVars, passVars, submitVars, aliasVars,
                 countVars>>
  /\ Broadcast(SnapshotOf(data, changes, errors, warnings,
                          hiddenValidationFields, value, isSubmitting))

\* addChangeListener(func) (lines 169-171), func not registered yet.
AddChangeListener ==
  /\ listeners < MaxListeners
  /\ listeners' = listeners + 1
  /\ vfBurst' = -1
  /\ UNCHANGED <<formVars, subscribed, initPc, presetData, throttleVars,
                 passVars, submitVars, aliasVars, countVars>>
  /\ NoBroadcast

\* removeChangeListener(func) (lines 173-178); registered says whether func is
\* one of the listeners.
RemoveChangeListener(registered) ==
  /\ registered => listeners > 0
  /\ listeners' = IF registered THEN listeners - 1 ELSE listeners
  /\ subscribed' = IF listeners' = 0 /\ ~isNotInitialized THEN FALSE
                    ELSE subscribed
  /\ vfBurst' = -1
  /\ UNCHANGED <<formVars, initPc, presetData, throttleVars, passVars,
                 submitVars, aliasVars, countVars>>
  /\ NoBroadcast

\* removeAllListeners() (lines 180-183). Before init() the model is null and
\* unwrap throws once the listeners are gone.
RemoveAllListeners ==
  /\ listeners' = 0
  /\ subscribed' = FALSE
  /\ vfBurst' = -1
  /\ UNCHANGED <<formVars, initPc, presetData, throttleVars, passVars,
                 submitVars, aliasVars, countVars>>
  /\ NoBroadcast

\* -------------------------------------------- resumptions after an await
\* submit() resumed when model.submit settles (lines 277-310). answer is how the
\* request ended; validationErrors is what a validation-kind rejection carries.
SubmitSettle(answer, validationErrors) ==
  /\ request # Null
  /\ request' = Null
  /\ isSubmitting' = FALSE
  /\ UNCHANGED <<isNotInitialized, data, warnings, partialErrorChecking,
                 partialErrorCheckingDefault, submitAll, validating>>
  /\ UNCHANGED <<initVars, throttleVars, passVars, submitCount, countVars>>
  /\ BurstResumed
  /\ IF answer = "rejectsFatal"
     THEN /\ UNCHANGED <<changes, errors, hiddenValidationFields>>
          /\ aliases' = aliases \ {"request"}
          /\ submitResult' = "error"
          /\ Broadcast(SnapshotOf(data, changes, errors, warnings,
                                  hiddenValidationFields, partialErrorChecking,
                                  FALSE))
     ELSE LET actualChanges == request.sent = GetChanges
              committed == actualChanges /\ answer = "resolves"
          IN /\ errors' = IF ~actualChanges THEN errors
                          ELSE IF answer = "rejectsValidation"
                               THEN validationErrors ELSE NoErrors
             /\ changes' = IF committed THEN EmptyMap ELSE changes
             /\ aliases' = IF committed THEN {} ELSE aliases \ {"request"}
             /\ hiddenValidationFields' = Splice(hiddenValidationFields, submitCount)
             /\ submitResult' = IF answer = "rejectsValidation"
                                THEN "validationErrors" ELSE "payload"
             /\ Broadcast(SnapshotOf(data, changes', errors', warnings,
                                     hiddenValidationFields', partialErrorChecking,
                                     FALSE))

\* _runValidator(model, _getChanges, '_errors') resumed when isValidRecord
\* resolves with validErrors (lines 503-512).
ErrorsValidatorResolve(validErrors) ==
  /\ errV.st = "awaiting"
  /\ errors' = IF errV.data = GetChanges THEN validErrors ELSE errors
  /\ errV' = Settled("ok")
  /\ aliases' = aliases \ {"errV"}
  /\ UNCHANGED <<isNotInitialized, data, changes, warnings, hiddenValidationFields,
                 isSubmitting, partialErrorChecking, partialErrorCheckingDefault,
                 submitAll, validating>>
  /\ UNCHANGED <<initVars, throttleVars, passPc, passes, passCount, warnV,
                 submitVars, countVars>>
  /\ BurstResumed
  /\ NoBroadcast

\* ... and when isValidRecord rejects (lines 504-507).
ErrorsValidatorReject ==
  /\ errV.st = "awaiting"
  /\ errors' = NoErrors
  /\ errV' = Settled("failed")
  /\ aliases' = aliases \ {"errV"}
  /\ UNCHANGED <<isNotInitialized, data, changes, warnings, hiddenValidationFields,
                 isSubmitting, partialErrorChecking, partialErrorCheckingDefault,
                 submitAll, validating>>
  /\ UNCHANGED <<initVars, throttleVars, passPc, passes, passCount, warnV,
                 submitVars, countVars>>
  /\ BurstResumed
  /\ NoBroadcast

\* _runValidator(_warningsValidator, _getData, '_warnings') resumed.
WarningsValidatorResolve(validErrors) ==
  /\ warnV.st = "awaiting"
  /\ warnings' = IF warnV.data = GetData THEN validErrors ELSE warnings
  /\ warnV' = Settled("ok")
  /\ UNCHANGED <<isNotInitialized, data, changes, errors, hiddenValidationFields,
                 isSubmitting, partialErrorChecking, partialErrorCheckingDefault,
                 submitAll, validating>>
  /\ UNCHANGED <<initVars, throttleVars, passPc, passes, passCount, errV,
                 submitVars, aliasVars, countVars>>
  /\ BurstResumed
  /\ NoBroadcast

WarningsValidatorReject ==
  /\ warnV.st = "awaiting"
  /\ warnings' = NoErrors
  /\ warnV' = Settled("failed")
  /\ UNCHANGED <<isNotInitialized, data, changes, errors, hiddenValidationFields,
                 isSubmitting, partialErrorChecking, partialErrorCheckingDefault,
                 submitAll, validating>>
  /\ UNCHANGED <<initVars, throttleVars, passPc, passes, passCount, errV,
                 submitVars, aliasVars, countVars>>
  /\ BurstResumed
  /\ NoBroadcast

\* _validateForm() resumed when Promise.all settles (lines 373-388): with both
\* _runValidator calls done, or as soon as one of them has failed.
PassFinish ==
  /\ passPc = "awaiting"
  /\ \/ errV.st = "ok" /\ warnV.st = "ok"
     \/ errV.st = "failed"
     \/ warnV.st = "failed"
  /\ validating' = FALSE
  /\ hiddenValidationFields' = Splice(hiddenValidationFields, passCount)
  /\ passPc' = "settled"
  /\ UNCHANGED <<isNotInitialized, data, changes, errors, warnings, isSubmitting,
                 partialErrorChecking, partialErrorCheckingDefault, submitAll>>
  /\ UNCHANGED <<initVars, throttleVars, passes, passCount, errV, warnV,
                 submitVars, aliasVars, countVars>>
  /\ BurstResumed
  /\ Broadcast(SnapshotOf(data, changes, errors, warnings,
                          hiddenValidationFields', partialErrorChecking,
                          isSubmitting))

\* ------------------------------------------------------ the program
\* What callers pass in: set() and the model's update event get the empty
\* record or one field; clearValidation gets one name or a list.
Updates == {EmptyMap} \cup UNION {[{f} -> Values] : f \in Fields}
FieldLists == {<<f>> : f \in Fields} \cup {<<"a", "b">>}
Answers == {"resolves", "rejectsValidation", "rejectsFatal"}

Next ==
  \/ \E d \in Maps \cup {Null}, c \in Maps, pec \in BOOLEAN, sAll \in BOOLEAN :
       InitCall(d, c, pec, sAll)
  \/ \E d \in Maps : InitFetched(d)
  \/ \E update \in Updates, validate \in BOOLEAN : Set(update, validate)
  \/ ValidateForm
  \/ ThrottleSettle
  \/ Submit
  \/ \E field \in Fields : ClearFieldChanges(field)
  \/ ClearChanges
  \/ \E fields \in FieldLists : ClearValidation(fields)
  \/ \E value \in BOOLEAN : SetPartialErrorChecking(value)
  \/ \E update \in Updates : OnModelChange(update)

Spec == Init /\ [][Next]_vars

\* The operations of Next together with the registration of change listeners,
\* which Next leaves at none registered.
NextListeners ==
  \/ Next
  \/ AddChangeListener
  \/ \E registered \in BOOLEAN : RemoveChangeListener(registered)
  \/ RemoveAllListeners

SpecListeners == Init /\ [][NextListeners]_vars

\* The handlers from a state in which _isNotInitialized is false and init() has
\* run. No step of Next clears the flag, so Spec reaches none of these states:
\* this specification exercises the code behind the guards on it.
Initialized ==
  /\ isNotInitialized = FALSE
  /\ data \in Maps
  /\ changes \in Maps
  /\ errors = NoErrors
  /\ warnings = NoErrors
  /\ hiddenValidationFields = <<>>
  /\ isSubmitting = FALSE
  /\ partialErrorChecking \in BOOLEAN
  /\ partialErrorCheckingDefault = partialErrorChecking
  /\ submitAll \in BOOLEAN
  /\ validating = FALSE
  /\ subscribed = TRUE
  /\ listeners = 0
  /\ initPc = "ran"
  /\ presetData = TRUE
  /\ worked = FALSE
  /\ nextArguments = 0
  /\ initWait = "none"
  /\ passAnswer = "none"
  /\ callAnswer = "none"
  /\ passPc = "idle"
  /\ passes = 0
  /\ passCount = 0
  /\ errV = Settled("idle")
  /\ warnV = Settled("idle")
  /\ request = Null
  /\ submitCount = 0
  /\ submitResult = "none"
  /\ aliases = {}
  /\ errCalls = 0
  /\ warnCalls = 0
  /\ submitCalls = 0
  /\ vfBurst = 0
  /\ emitted = <<>>
  /\ lastBroadcast = GetAll

Resume ==
  \/ \E answer \in Answers, validationErrors \in ErrorSets \ {NoErrors} :
       SubmitSettle(answer, validationErrors)
  \/ \E validErrors \in ErrorSets : ErrorsValidatorResolve(validErrors)
  \/ ErrorsValidatorReject
  \/ \E validErrors \in ErrorSets : WarningsValidatorResolve(validErrors)
  \/ WarningsValidatorReject
  \/ PassFinish

SpecInitialized == Initialized /\ [][Next \/ Resume]_vars

\* getAll() and _setState() as functions of the fields they read: the record,
\* the overlay, the two message sets, the hidden-validation-fields list and
\* the flags range over all their values, and the one step broadcasts.
HiddenLists == UNION {[1..n -> Fields] : n \in 0..MaxHidden}

AnyFields ==
  /\ isNotInitialized = TRUE
  /\ data \in Maps \cup {Null}
  /\ changes \in Maps
  /\ errors \in ErrorSets
  /\ warnings \in ErrorSets
  /\ hiddenValidationFields \in HiddenLists
  /\ isSubmitting \in BOOLEAN
  /\ partialErrorChecking \in BOOLEAN
  /\ partialErrorCheckingDefault = FALSE
  /\ submitAll = FALSE
  /\ validating = FALSE
  /\ subscribed = FALSE
  /\ listeners = 0
  /\ initPc = "ran"
  /\ presetData = FALSE
  /\ worked = FALSE
  /\ nextArguments = 0
  /\ initWait = "none"
  /\ passAnswer = "none"
  /\ callAnswer = "none"
  /\ passPc = "idle"
  /\ passes = 0
  /\ passCount = 0
  /\ errV = Settled("idle")
  /\ warnV = Settled("idle")
  /\ request = Null
  /\ submitCount = 0
  /\ submitResult = "none"
  /\ aliases = {}
  /\ errCalls = 0
  /\ warnCalls = 0
  /\ submitCalls = 0
  /\ vfBurst = -1
  /\ emitted = <<>>
  /\ lastBroadcast = Null

\* _setState() (lines 460-462)
SetState ==
  /\ emitted = <<>>
  /\ Broadcast(GetAll)
  /\ UNCHANGED <<formVars, initVars, throttleVars, passVars, submitVars,
                 aliasVars, countVars, vfBurst>>

SpecSetState == AnyFields /\ [][SetState]_vars

\* ------------------------------------------------------------ claims

\* C1: in every loaded state the data of getAll() holds, for every field, the
\* overlay's value when the overlay has the field and the record's otherwise.
C1_EffectiveData ==
  IsLoaded =>
    \A f \in Fields :
      IF f \in DOMAIN changes
      THEN f \in DOMAIN GetAll.data /\ GetAll.data[f] = changes[f]
      ELSE IF f \in DOMAIN data
           THEN f \in DOMAIN GetAll.data /\ GetAll.data[f] = data[f]
           ELSE f \notin DOMAIN GetAll.data

\* A loaded form, edited and updated from outside, where the overlay overrides
\* one field with another value and the other field comes from the record.
C1_Witness ==
  /\ IsLoaded
  /\ vfBurst = -1
  /\ \E f \in Fields, g \in Fields :
       /\ f \in DOMAIN changes /\ f \in DOMAIN data /\ changes[f] # data[f]
       /\ g \in DOMAIN data /\ g \notin DOMAIN changes

\* C2: when init() with preset data and partialErrorChecking=false resolves,
\* one validation pass has run (each validator with a non-empty input was
\* invoked once), is over, and the snapshot broadcast shows its result.
C2_InitRunsValidation ==
  [][(/\ ~InitResolved
      /\ InitResolved'
      /\ presetData'
      /\ ~partialErrorCheckingDefault'
      /\ vfBurst' = 0)
     => /\ warnCalls' = IF GetData' = EmptyMap THEN 0 ELSE 1
        /\ errCalls' = IF GetChanges' = EmptyMap THEN 0 ELSE 1
        /\ ~validating'
        /\ lastBroadcast' = GetAll']_vars

\* C3: on an initialized, loaded form with overlay {a:1}, submit() hands {a:1}
\* to the model's submit; when set({a:2}) came while the request was in flight
\* and the request resolves, the overlay stays {a:2} and the error set stays.
C3_SubmitThenEdit ==
  [][/\ (/\ Submit
         /\ InitResolved /\ IsLoaded /\ ~isSubmitting
         /\ ~submitAll /\ changes = [a |-> 1])
        => (request' # Null /\ request'.sent = [a |-> 1])
     /\ \A e \in ErrorSets :
          (/\ SubmitSettle("resolves", e)
           /\ ~submitAll /\ request.sent = [a |-> 1] /\ changes = [a |-> 2])
          => (changes' = [a |-> 2] /\ errors' = errors)]_vars

\* C5: submit() on an initialized form that is not submitting starts a
\* request; when it resolves with the overlay as sent, the overlay and the
\* error set are empty, isSubmitting is false and the payload is returned.
C5_SubmitSuccess ==
  [][/\ (Submit /\ InitResolved /\ IsLoaded /\ ~isSubmitting)
        => (request' # Null /\ isSubmitting' /\ submitResult' = "pending")
     /\ \A e \in ErrorSets :
          (SubmitSettle("resolves", e) /\ request.sent = GetChanges)
          => /\ changes' = EmptyMap
             /\ errors' = NoErrors
             /\ ~isSubmitting'
             /\ submitResult' = "payload"]_vars

\* C6: submit() on an initialized form that is not submitting asks the model;
\* when the model rejects with ValidationErrors and the overlay is as sent,
\* those become the error set, the overlay stays, isSubmitting is false, the
\* final state is broadcast and the ValidationErrors are raised to the caller.
C6_SubmitValidationFailure ==
  [][/\ (Submit /\ InitResolved /\ IsLoaded /\ ~isSubmitting)
        => (request' # Null /\ request'.sent = GetChanges)
     /\ \A e \in ErrorSets \ {NoErrors} :
          (SubmitSettle("rejectsValidation", e) /\ request.sent = GetChanges)
          => /\ errors' = e
             /\ changes' = changes
             /\ ~isSubmitting'
             /\ emitted' = <<GetAll'>>
             /\ submitResult' = "validationErrors"]_vars

\* C7: submit() on an initialized form that is not submitting asks the model;
\* when the model rejects with another failure, isSubmitting is reset, a
\* snapshot is broadcast, the failure is raised, and the overlay and the error
\* set are what they were.
C7_SubmitFatalFailure ==
  [][/\ (Submit /\ InitResolved /\ IsLoaded /\ ~isSubmitting)
        => (request' # Null /\ submitCount' = Len(hiddenValidationFields))
     /\ \A e \in ErrorSets :
          SubmitSettle("rejectsFatal", e)
          => /\ ~isSubmitting'
             /\ emitted' = <<GetAll'>>
             /\ submitResult' = "error"
             /\ changes' = changes
             /\ errors' = errors
             /\ hiddenValidationFields' = hiddenValidationFields]_vars

\* C8: a submit() call while a request is in flight changes nothing, asks the
\* model nothing and broadcasts nothing; a submit() call on an initialized
\* form that is not submitting does invoke the model's submit.
C8_SingleFlightSubmit ==
  [][/\ (Submit /\ isSubmitting)
        => (/\ UNCHANGED <<formVars, submitVars, submitCalls>>
            /\ emitted' = <<>>)
     /\ (Submit /\ InitResolved /\ IsLoaded /\ ~isSubmitting)
        => (/\ submitCalls' = submitCalls + 1
            /\ request' # Null)]_vars

\* C9: at most one run of _validateForm is outstanding at any time, and the
\* calls that came during it hold at most the one pending slot.
C9_SinglePass == passes <= 1 /\ nextArguments <= 1

\* A validateForm() call came while a run was outstanding and waits for it.
C9_Witness == worked /\ passes = 1 /\ nextArguments = 1

\* C10: after three validateForm() calls made back-to-back on an initialized
\* form with data to validate, once the throttle is idle again the validator
\* has been invoked exactly twice: once for the first call and once more after.
C10_ThreeCallsTwoPasses ==
  (/\ vfBurst = 3
   /\ ~worked
   /\ partialErrorCheckingDefault
   /\ GetData # EmptyMap)
  => (warnCalls = 2 /\ warnV.st # "awaiting")

C13_PassCompletion ==
  [][(initPc = "ran" /\ passPc # "settled" /\ passPc' = "settled")
     => LET n == IF passPc = "awaiting" THEN passCount
                 ELSE Len(hiddenValidationFields)
        IN /\ hiddenValidationFields' = Splice(hiddenValidationFields, n)
           /\ ~validating'
           /\ emitted' = <<GetAll'>>
           /\ \A f \in SeqToSet(hiddenValidationFields') :
                f \notin emitted'[1].errors /\ f \notin emitted'[1].warnings]_vars

\* C14: a snapshot handed to the listeners shows, among its errors and among
\* its warnings, no field that is in the hidden-validation-fields list at the
\* moment of the broadcast.
C14_HiddenNotDisplayed ==
  emitted # <<>> =>
    \A f \in SeqToSet(hiddenValidationFields) :
      f \notin emitted[1].errors /\ f \notin emitted[1].warnings

\* A broadcast with a field that has both an error and a warning and is
\* hidden, next to a field whose error is displayed.
C14_Witness ==
  /\ emitted # <<>>
  /\ \E f \in Fields, g \in Fields :
       /\ f \in errors /\ f \in warnings
       /\ f \in SeqToSet(hiddenValidationFields)
       /\ g \in emitted[1].errors

\* C15: init() has resolved with partialErrorChecking set and record
\* {a:1, b:1}, and the user has set a to 1. Setting b to 2 with validation
\* asks the authoritative validator; when it answers with errors for a and b
\* they become the error set, and the snapshot broadcast when the pass
\* completes displays b's error and not a's.
C15_PartialMode ==
  [][/\ (/\ Set([b |-> 2], TRUE)
         /\ InitResolved /\ ~worked /\ partialErrorChecking
         /\ data = [a |-> 1, b |-> 1] /\ changes = [a |-> 1])
        => (/\ errCalls' = errCalls + 1
            /\ errV'.st = "awaiting"
            /\ errV'.data = GetChanges')
     /\ (/\ ErrorsValidatorResolve({"a", "b"})
         /\ partialErrorChecking
         /\ data = [a |-> 1, b |-> 1] /\ changes = [a |-> 1, b |-> 2])
        => errors' = {"a", "b"}
     /\ (/\ PassFinish
         /\ partialErrorChecking /\ errors = {"a", "b"}
         /\ hiddenValidationFields = <<>>
         /\ data = [a |-> 1, b |-> 1] /\ changes = [a |-> 1, b |-> 2])
        => (emitted' # <<>> /\ emitted'[1].errors = {"b"})]_vars

\* C16: after init() has resolved, clearChanges() on a form with pending
\* changes leaves the overlay, the error
\* set and the warning set empty, partialErrorChecking at the value given to
\* init, and broadcasts the snapshot of that state.
C16_ClearChanges ==
  [][(ClearChanges /\ InitResolved /\ IsLoaded /\ changes # EmptyMap)
     => /\ changes' = EmptyMap
        /\ errors' = NoErrors
        /\ warnings' = NoErrors
        /\ partialErrorChecking' = partialErrorCheckingDefault
        /\ emitted' = <<GetAll'>>
        /\ emitted'[1].changes = EmptyMap
        /\ emitted'[1].errors = NoErrors
        /\ emitted'[1].warnings = NoErrors]_vars

\* C17: after init() has resolved, clearFieldChanges(f) of a field f that the
\* overlay holds takes f out of the
\* error set, the warning set and the overlay, leaves the other fields' entries
\* and messages as they were, and broadcasts the snapshot of that state.
C17_ClearFieldChanges ==
  [][\A f \in Fields :
       (ClearFieldChanges(f) /\ InitResolved /\ IsLoaded /\ f \in DOMAIN changes)
       => /\ errors' = errors \ {f}
          /\ warnings' = warnings \ {f}
          /\ changes' = Without(changes, f)
          /\ emitted' = <<GetAll'>>]_vars

\* C18: while the record is not loaded (before init(), or while init() awaits
\* model.getData), set(update, validate) changes no field of the form, preset
\* changes included, starts no validation, invokes no validator and broadcasts
\* nothing, for every update and both values of validate.
C18_SetBeforeLoaded ==
  [][\A update \in Updates, validate \in BOOLEAN :
       (data = Null /\ Set(update, validate))
       => /\ UNCHANGED <<formVars, initVars, throttleVars, passVars, submitVars,
                         countVars>>
          /\ emitted' = <<>>
          /\ lastBroadcast' = lastBroadcast]_vars

\* init() was given changes and no data and awaits model.getData, and a call
\* made meanwhile has returned without a broadcast.
C18_Witness ==
  /\ data = Null
  /\ initPc = "fetching"
  /\ changes \in Maps /\ changes # EmptyMap
  /\ vfBurst = -1
  /\ emitted = <<>>
  /\ lastBroadcast = Null

\* C19 as stated: in every reachable state, set({}) leaves the effective data
\* as it was and broadcasts a snapshot equal to the one getAll() returned just
\* before the call.
C19_EmptySetAlwaysBroadcasts ==
  [][\A validate \in BOOLEAN :
       Set(EmptyMap, validate)
       => /\ GetAll'.data = GetAll.data
          /\ emitted' = <<GetAll>>]_vars

\* C19, amended: in every loaded state, set({}) leaves the effective data as it
\* was and broadcasts a snapshot equal to the one getAll() returned just before
\* the call; while the record is not loaded it broadcasts nothing.
C19_EmptySet ==
  [][\A validate \in BOOLEAN :
       (UNCHANGED data /\ Set(EmptyMap, validate))
       => /\ GetAll'.data = GetAll.data
          /\ emitted' = IF data # Null THEN <<GetAll>> ELSE <<>>]_vars

\* A loaded form with an edited overlay whose last step broadcast the snapshot
\* getAll() returns now, as set({}) does.
C19_Witness ==
  /\ data # Null
  /\ changes # EmptyMap
  /\ vfBurst = -1
  /\ emitted = <<GetAll>>

\* C20: in every loaded snapshot, changes holds exactly the overlay entries
\* whose value is not the record's value for the field, and the per-field view
\* reports isChanged for exactly those fields; a field of the overlay whose
\* value is the record's is in neither. The snapshot broadcast last shows the
\* same, an external update of the record included.
C20_ChangesFilter ==
  LET differs(d, c) ==
        {f \in DOMAIN c : f \notin DOMAIN d \/ c[f] # d[f]}
  IN /\ IsLoaded =>
          /\ DOMAIN GetAll.changes = differs(data, changes)
          /\ \A f \in DOMAIN GetAll.changes : GetAll.changes[f] = changes[f]
          /\ \A f \in Fields : GetFields[f].isChanged <=> f \in differs(data, changes)
     /\ (emitted # <<>> /\ emitted[1].isLoaded) => emitted[1] = GetAll

\* The overlay holds a field whose value is the record's and a field whose
\* value is not, in the snapshot just broadcast.
C20_Witness ==
  /\ IsLoaded
  /\ emitted = <<GetAll>>
  /\ \E f \in DOMAIN changes, g \in DOMAIN changes :
       /\ f \in DOMAIN data /\ changes[f] = data[f]
       /\ g \in DOMAIN data /\ changes[g] # data[g]
       /\ ~GetFields[f].isChanged
       /\ GetFields[g].isChanged

\* C21: an update notification of the model with the partial record P leaves
\* the record with P's value at each field of P and its own value at every
\* other field, leaves the overlay, the error and warning sets, the
\* hidden-validation-fields list and the flags as they were, and broadcasts the
\* snapshot of the new state; also while a run of the throttled validation is
\* outstanding.
C21_ExternalUpdate ==
  [][\A P \in Updates :
       (subscribed /\ OnModelChange(P))
       => /\ \A f \in Fields :
               IF f \in DOMAIN P
               THEN f \in DOMAIN data' /\ data'[f] = P[f]
               ELSE IF f \in DOMAIN data
                    THEN f \in DOMAIN data' /\ data'[f] = data[f]
                    ELSE f \notin DOMAIN data'
          /\ UNCHANGED <<changes, errors, warnings, hiddenValidationFields,
                         isSubmitting, partialErrorChecking,
                         partialErrorCheckingDefault, submitAll, validating>>
          /\ emitted' = <<GetAll'>>]_vars

\* A subscribed form with an edited overlay and a run of the throttled
\* validation outstanding, whose last step broadcast a record that holds both
\* fields with different values and is no longer the overlay's.
C21_Witness ==
  /\ subscribed
  /\ worked
  /\ vfBurst = -1
  /\ emitted = <<GetAll>>
  /\ changes = [a |-> 1]
  /\ data = [a |-> 2, b |-> 1]

\* C22: after init() has resolved, removeChangeListener of the last listener
\* ends the subscription to the model's update event, so that no later update
\* of the model reaches the record; removeChangeListener of a listener while
\* another remains leaves the subscription in effect.
C22_LastListenerDetaches ==
  [][/\ (/\ InitResolved /\ subscribed /\ listeners = 1
         /\ RemoveChangeListener(TRUE))
        => ~subscribed'
     /\ (/\ InitResolved /\ subscribed /\ listeners > 1
         /\ RemoveChangeListener(TRUE))
        => subscribed']_vars

\* C25: after init() has resolved, validateForm() on a form with data starts
\* the validators; when a validator rejects, its set (errors or warnings) is
\* left empty, the pass still completes with validating false, the first N
\* hidden entries retired and a broadcast, and the failure is what the caller
\* of validateForm() gets.
C25_ValidatorFailure ==
  [][/\ (/\ InitResolved /\ ~worked /\ IsLoaded /\ GetData # EmptyMap
         /\ ValidateForm)
        => (validating' /\ warnV'.st = "awaiting" /\ passPc' = "awaiting")
     /\ ErrorsValidatorReject => (errors' = NoErrors /\ errV'.st = "failed")
     /\ WarningsValidatorReject => (warnings' = NoErrors /\ warnV'.st = "failed")
     /\ (PassFinish /\ (errV.st = "failed" \/ warnV.st = "failed"))
        => /\ ~validating'
           /\ hiddenValidationFields' = Splice(hiddenValidationFields, passCount)
           /\ emitted' = <<GetAll'>>
     /\ (ThrottleSettle /\ (errV.st = "failed" \/ warnV.st = "failed"))
        => callAnswer' = "error"]_vars

\* C26: after init() has resolved, a call that starts a validation pass hands
\* the authoritative validator the effective record when submitAll is set and
\* the overlay otherwise, and the advisory validator the effective record; a
\* validator whose data is empty is not invoked and its set is left empty.
C26_ValidatorInputs ==
  [][(/\ InitResolved /\ ~worked /\ IsLoaded
      /\ \/ ValidateForm
         \/ \E update \in Updates : Set(update, TRUE))
     => LET dE == IF submitAll THEN GetAll'.data ELSE changes'
            dW == GetAll'.data
        IN /\ IF dE = EmptyMap
              THEN errCalls' = errCalls /\ errors' = NoErrors
              ELSE /\ errCalls' = errCalls + 1
                   /\ errV'.st = "awaiting" /\ errV'.data = dE
           /\ IF dW = EmptyMap
              THEN warnCalls' = warnCalls /\ warnings' = NoErrors
              ELSE /\ warnCalls' = warnCalls + 1
                   /\ warnV'.st = "awaiting" /\ warnV'.data = dW]_vars

====
